---- MODULE Spec2Model ----
(***************************************************************************)
(* A model of yml-diff (src/src/main.rs): the hierarchical key ordering    *)
(* (ConfigKey::hierarchical_cmp), the path flattener (extract_key_vals),   *)
(* the diff engine (cmp_yml_vals), the value renderer (get_val_string),    *)
(* the report (print_diff) and the driver (main, read_cfg).                *)
(*                                                                         *)
(* Strings are sequences of byte codes, so that Rust's bytewise string     *)
(* comparison and split('.') are computed, not assumed.                    *)
(***************************************************************************)
EXTENDS Integers, Sequences, FiniteSets

VARIABLES
    pc,            \* position of main / of the function under check
    input,         \* Args: [old |-> path, new |-> path]
    old_val,       \* main: old_val (a document) or None
    new_val,       \* main: new_val (a document) or None
    err,           \* the anyhow error main returns, or None
    old_key_vals,  \* cmp_yml_vals: old_key_vals (HashMap path -> leaf)
    new_key_vals,  \* cmp_yml_vals: new_key_vals
    diff,          \* ConfigDiff or None
    out,           \* lines written to stdout by print_diff
    self_key,      \* ConfigKey::cmp: self
    other_key,     \* ConfigKey::cmp: other
    ordering,      \* ConfigKey::cmp: the Ordering returned, or None
    rev_ordering,  \* other.cmp(self), or None
    val,           \* get_val_string: the value rendered
    rendered       \* the strings successive calls of get_val_string(val) returned

vars == <<pc, input, old_val, new_val, err, old_key_vals, new_key_vals, diff, out,
          self_key, other_key, ordering, rev_ordering, val, rendered>>

None == [t |-> "None"]

(***************************************************************************)
(* Bytes used in the strings of the model.                                 *)
(***************************************************************************)
Dot       == 46   \* '.'
Quote     == 34   \* '"'
Backslash == 92   \* '\'
Space     == 32
Comma     == 44
Colon     == 58
LBracket  == 91
RBracket  == 93
LBrace    == 123
RBrace    == 125
Digit0    == 48
Bang      == 33   \* '!', the first byte of a YAML tag

(***************************************************************************)
(* Bounds of the model.                                                    *)
(***************************************************************************)
MaxPathLen    == 3   \* bytes in a path handed to ConfigKey::cmp
MaxFlatNodes  == 3   \* mapping entries in a document handed to extract_key_vals
MaxDiffNodes  == 2   \* mapping entries in a document read by main
MaxMapEntries == 2   \* entries of a mapping handed to get_val_string
MaxRenders    == 2   \* calls of get_val_string on one value

(***************************************************************************)
(* Rust str: Ord (bytewise lexicographic) and split('.').                  *)
(***************************************************************************)
RECURSIVE StrCmp(_, _)
StrCmp(s, t) ==
    IF s = <<>> /\ t = <<>> THEN "Equal"
    ELSE IF s = <<>> THEN "Less"
    ELSE IF t = <<>> THEN "Greater"
    ELSE IF Head(s) < Head(t) THEN "Less"
    ELSE IF Head(s) > Head(t) THEN "Greater"
    ELSE StrCmp(Tail(s), Tail(t))

UsizeCmp(m, n) == IF m < n THEN "Less" ELSE IF m > n THEN "Greater" ELSE "Equal"

\* s.split('.').collect(): always at least one segment ("" splits to [""]).
RECURSIVE Split(_)
Split(s) ==
    IF s = <<>> THEN << <<>> >>
    ELSE LET rest == Split(Tail(s))
         IN  IF Head(s) = Dot THEN << <<>> >> \o rest
             ELSE << <<Head(s)>> \o rest[1] >> \o Tail(rest)

Min(m, n) == IF m <= n THEN m ELSE n

\* self_parts.iter().zip(other_parts.iter()).take_while(|(a, b)| a == b).count()
RECURSIVE CommonPrefixLen(_, _)
CommonPrefixLen(p, q) ==
    IF p = <<>> \/ q = <<>> THEN 0
    ELSE IF Head(p) = Head(q) THEN 1 + CommonPrefixLen(Tail(p), Tail(q))
    ELSE 0

\* hierarchical_cmp comparing, for as many segments, the last common segment
\* instead of the first differing one.
hierarchical_cmp_off_by_one(self, other) ==
    LET self_parts  == Split(self)
        other_parts == Split(other)
        common_prefix_len == CommonPrefixLen(self_parts, other_parts)
    IN  IF common_prefix_len > 0
        THEN IF common_prefix_len = Len(self_parts) /\ Len(self_parts) < Len(other_parts)
             THEN "Less"
             ELSE IF common_prefix_len = Len(other_parts) /\ Len(other_parts) < Len(self_parts)
             THEN "Greater"
             ELSE LET byLen == UsizeCmp(Len(self_parts), Len(other_parts))
                  IN  IF byLen = "Equal"
                      THEN StrCmp(self_parts[common_prefix_len], other_parts[common_prefix_len])
                      ELSE byLen
        ELSE StrCmp(self, other)

\* The plain lexical ordering of the keys.
hierarchical_cmp_lexical(self, other) == StrCmp(self, other)

hierarchical_cmp(self, other) ==
    LET self_parts  == Split(self)
        other_parts == Split(other)
        common_prefix_len == CommonPrefixLen(self_parts, other_parts)
    IN  IF common_prefix_len > 0
        THEN IF common_prefix_len = Len(self_parts) /\ Len(self_parts) < Len(other_parts)
             THEN "Less"
             ELSE IF common_prefix_len = Len(other_parts) /\ Len(other_parts) < Len(self_parts)
             THEN "Greater"
             ELSE LET byLen == UsizeCmp(Len(self_parts), Len(other_parts))
                  IN  IF byLen = "Equal"
                      THEN IF common_prefix_len < Min(Len(self_parts), Len(other_parts))
                           THEN StrCmp(self_parts[common_prefix_len + 1],
                                       other_parts[common_prefix_len + 1])
                           ELSE StrCmp(self, other)
                      ELSE byLen
        ELSE StrCmp(self, other)

\* impl Ord for ConfigKey
ConfigKey_cmp(self, other) == hierarchical_cmp(self, other)

(***************************************************************************)
(* The ordering alone: ConfigKey::cmp applied to two keys, both ways.      *)
(***************************************************************************)
\* '-' (a byte below '.'), '.' and 'a'
PathBytes == {45, Dot, 97}

RECURSIVE StringsOver(_, _)
StringsOver(bytes, n) ==
    IF n = 0 THEN { <<>> }
    ELSE LET shorter == StringsOver(bytes, n - 1)
         IN  shorter \cup { <<b>> \o s : b \in bytes, s \in {x \in shorter : Len(x) = n - 1} }

PathStrings == StringsOver(PathBytes, MaxPathLen)

InitOrd ==
    /\ pc = "cmp"
    /\ input = None /\ old_val = None /\ new_val = None /\ err = None
    /\ old_key_vals = {} /\ new_key_vals = {} /\ diff = None /\ out = <<>>
    /\ self_key \in PathStrings /\ other_key \in PathStrings
    /\ ordering = None /\ rev_ordering = None
    /\ val = None /\ rendered = <<>>

Compare ==
    /\ pc = "cmp"
    /\ ordering' = [t |-> ConfigKey_cmp(self_key, other_key)]
    /\ rev_ordering' = [t |-> ConfigKey_cmp(other_key, self_key)]
    /\ pc' = "cmp_done"
    /\ UNCHANGED <<input, old_val, new_val, err, old_key_vals, new_key_vals, diff, out,
                   self_key, other_key, val, rendered>>

NextOrd == Compare

SpecOrd == InitOrd /\ [][NextOrd]_vars

(***************************************************************************)
(* serde_yaml::Value.  A Mapping keeps its entries in insertion order      *)
(* (keys unique); a Value used as a key is any Value.                      *)
(***************************************************************************)
Null        == [t |-> "Null"]
Bool(b)     == [t |-> "Bool", b |-> b]
Number(n)   == [t |-> "Number", n |-> n]
String(s)   == [t |-> "String", s |-> s]
Sequence(q) == [t |-> "Sequence", seq |-> q]
Mapping(m)  == [t |-> "Mapping", m |-> m]
Tagged(tag, v) == [t |-> "Tagged", tag |-> tag, value |-> v]

Some(s) == [t |-> "Some", s |-> s]

\* Value::as_str: the string of a Value::String, None for every other key.
as_str(k) == IF k.t = "String" THEN Some(k.s) ELSE None

\* impl PartialEq for Value: derived, except that two Mappings are equal when
\* they hold the same key/value pairs in any order.
RECURSIVE ValEq(_, _)
ValEq(a, b) ==
    IF a.t # b.t THEN FALSE
    ELSE IF a.t = "Sequence"
    THEN /\ Len(a.seq) = Len(b.seq)
         /\ \A i \in DOMAIN a.seq : ValEq(a.seq[i], b.seq[i])
    ELSE IF a.t = "Mapping"
    THEN /\ Len(a.m) = Len(b.m)
         /\ \A i \in DOMAIN a.m :
              \E j \in DOMAIN b.m : ValEq(a.m[i][1], b.m[j][1]) /\ ValEq(a.m[i][2], b.m[j][2])
    ELSE IF a.t = "Tagged"
    THEN a.tag = b.tag /\ ValEq(a.value, b.value)
    ELSE a = b

(***************************************************************************)
(* HashMap<String, &Value> as a set of <<key, value>> pairs, one per key.  *)
(***************************************************************************)
HashKeys(h) == { e[1] : e \in h }
HashGet(h, k) == (CHOOSE e \in h : e[1] = k)[2]
HashInsert(h, k, v) == { e \in h : e[1] # k } \cup { <<k, v>> }
HashExtend(h, g) == { e \in h : e[1] \notin HashKeys(g) } \cup g

\* String::truncate(new_len)
Truncate(s, new_len) == IF new_len < Len(s) THEN SubSeq(s, 1, new_len) ELSE s

\* prefix.push('.') unless the prefix is empty, then prefix.push_str(key_str)
PushKey(prefix, key_str) ==
    (IF prefix # <<>> THEN prefix \o <<Dot>> ELSE prefix) \o key_str

RECURSIVE extract_key_vals(_, _)
RECURSIVE ExtractLoop(_, _, _, _, _)
\* The for loop of extract_key_vals from entry i on: prefix is the reused
\* buffer, prefix_len its length on entry to the loop.
ExtractLoop(map, i, prefix, prefix_len, key_vals) ==
    IF i > Len(map) THEN key_vals
    ELSE LET k == map[i][1]
             v == map[i][2]
             key_str == as_str(k)
         IN  IF key_str = None
             THEN ExtractLoop(map, i + 1, prefix, prefix_len, key_vals)
             ELSE LET pushed == PushKey(prefix, key_str.s)
                      kvs == IF v.t = "Mapping"
                             THEN HashExtend(key_vals, extract_key_vals(v, pushed))
                             ELSE HashInsert(key_vals, pushed, v)
                  IN  ExtractLoop(map, i + 1, Truncate(pushed, prefix_len), prefix_len, kvs)

extract_key_vals(value, prefix) ==
    IF value.t = "Mapping"
    THEN ExtractLoop(value.m, 1, prefix, Len(prefix), {})
    ELSE IF prefix # <<>> THEN { <<prefix, value>> } ELSE {}

(***************************************************************************)
(* Documents: every value built from the given keys and leaves with        *)
(* exactly n mapping entries in all (nested ones counted).                 *)
(***************************************************************************)
RECURSIVE ValuesOfSize(_, _, _)
RECURSIVE EntriesOfSize(_, _, _, _)
ValuesOfSize(keys, leaves, n) ==
    (IF n = 0 THEN leaves ELSE {})
    \cup { Mapping(m) : m \in EntriesOfSize(keys, keys, leaves, n) }

\* The entry lists of one mapping whose keys are distinct keys of avail.
EntriesOfSize(avail, keys, leaves, n) ==
    IF n = 0 THEN { <<>> }
    ELSE UNION { UNION { { << <<k, v>> >> \o rest :
                             v \in ValuesOfSize(keys, leaves, j),
                             rest \in EntriesOfSize(avail \ {k}, keys, leaves, n - 1 - j) }
                         : j \in 0 .. (n - 1) }
                 : k \in avail }

UniqueKeys(m) == \A i, j \in DOMAIN m : m[i][1] = m[j][1] => i = j

\* A document is a mapping of at most n entries or a bare leaf.
DocsUpTo(keys, leaves, n) ==
    leaves \cup UNION { ValuesOfSize(keys, leaves, k) : k \in 0 .. n }

StrA   == <<97>>            \* "a"
StrB   == <<98>>            \* "b"
StrAB  == <<97, Dot, 98>>   \* "a.b"

FlatKeys   == { String(StrA), String(StrB), String(StrAB), String(<<>>), Number(1) }
FlatLeaves == { Number(1), Number(2) }

\* The same document with two neighbouring entries of one of its mappings
\* exchanged: equal to it under ValEq.
RECURSIVE Reorderings(_)
Reorderings(v) ==
    IF v.t # "Mapping" THEN {}
    ELSE { Mapping([v.m EXCEPT ![i] = v.m[i + 1], ![i + 1] = v.m[i]]) :
             i \in 1 .. (Len(v.m) - 1) }
         \cup UNION { { Mapping([v.m EXCEPT ![i] = <<v.m[i][1], w>>]) :
                          w \in Reorderings(v.m[i][2]) } : i \in DOMAIN v.m }

InitFlatten ==
    /\ pc = "flatten"
    /\ old_val \in DocsUpTo(FlatKeys, FlatLeaves, MaxFlatNodes) /\ new_val = old_val
    /\ input = None /\ err = None
    /\ old_key_vals = {} /\ new_key_vals = {} /\ diff = None /\ out = <<>>
    /\ self_key = <<>> /\ other_key = <<>> /\ ordering = None /\ rev_ordering = None
    /\ val = None /\ rendered = <<>>

Reorder ==
    /\ pc = "flatten"
    /\ new_val' \in Reorderings(new_val)
    /\ UNCHANGED <<pc, input, old_val, err, old_key_vals, new_key_vals, diff, out,
                   self_key, other_key, ordering, rev_ordering, val, rendered>>

\* The first two statements of cmp_yml_vals.
Flatten ==
    /\ pc = "flatten"
    /\ old_key_vals' = extract_key_vals(old_val, <<>>)
    /\ new_key_vals' = extract_key_vals(new_val, <<>>)
    /\ pc' = "flattened"
    /\ UNCHANGED <<input, old_val, new_val, err, diff, out,
                   self_key, other_key, ordering, rev_ordering, val, rendered>>

NextFlatten == Reorder \/ Flatten

SpecFlatten == InitFlatten /\ [][NextFlatten]_vars

(***************************************************************************)
(* get_val_string.  The Mapping arm collects the rendered entries into a   *)
(* std HashMap and prints it with {:?}: the entries come out in the hash   *)
(* table's iteration order, which RandomState makes differ from one map    *)
(* to the next.  get_val_string(v) is therefore the set of the strings a   *)
(* call can return.                                                        *)
(***************************************************************************)
StrNull  == <<110, 117, 108, 108>>
StrTrue  == <<116, 114, 117, 101>>
StrFalse == <<102, 97, 108, 115, 101>>

\* u64::to_string
RECURSIVE ToDecimal(_)
ToDecimal(n) ==
    IF n < 10 THEN <<Digit0 + n>> ELSE ToDecimal(n \div 10) \o <<Digit0 + (n % 10)>>

\* <str as Debug>::fmt on printable ASCII: the string in double quotes, with
\* '"' and '\' preceded by a backslash.
RECURSIVE EscapeDebug(_)
EscapeDebug(s) ==
    IF s = <<>> THEN <<>>
    ELSE (IF Head(s) \in {Quote, Backslash} THEN <<Backslash, Head(s)>> ELSE <<Head(s)>>)
         \o EscapeDebug(Tail(s))

DebugStr(s) == <<Quote>> \o EscapeDebug(s) \o <<Quote>>

\* [String]::join(sep)
RECURSIVE Join(_, _)
Join(parts, sep) ==
    IF parts = <<>> THEN <<>>
    ELSE IF Len(parts) = 1 THEN parts[1]
    ELSE parts[1] \o sep \o Join(Tail(parts), sep)

\* Every order in which a hash table holding the elements of S can be iterated.
Orders(S) ==
    { p \in [1 .. Cardinality(S) -> S] : \A i, j \in DOMAIN p : p[i] = p[j] => i = j }

\* iter.collect::<HashMap<_, _>>(): a later entry replaces the value of an equal key.
RECURSIVE CollectHashMap(_)
CollectHashMap(pairs) ==
    IF pairs = <<>> THEN {}
    ELSE LET last == pairs[Len(pairs)]
         IN  HashInsert(CollectHashMap(SubSeq(pairs, 1, Len(pairs) - 1)), last[1], last[2])

\* format!("{map:?}") for one iteration order of the map
DebugMap(order) ==
    <<LBrace>>
    \o Join([i \in DOMAIN order |-> DebugStr(order[i][1]) \o <<Colon, Space>> \o DebugStr(order[i][2])],
            <<Comma, Space>>)
    \o <<RBrace>>

RECURSIVE get_val_string(_)
\* The sequences r with r[i] one possible rendering of q[i].
RenderEach(q) ==
    { r \in [DOMAIN q -> UNION { get_val_string(q[i]) : i \in DOMAIN q }] :
        \A i \in DOMAIN q : r[i] \in get_val_string(q[i]) }

get_val_string(v) ==
    IF v.t = "Null" THEN { StrNull }
    ELSE IF v.t = "Bool" THEN { IF v.b THEN StrTrue ELSE StrFalse }
    ELSE IF v.t = "Number" THEN { ToDecimal(v.n) }
    ELSE IF v.t = "String" THEN { v.s }
    ELSE IF v.t = "Sequence"
    THEN { <<LBracket>> \o Join(arr, <<Comma, Space>>) \o <<RBracket>> : arr \in RenderEach(v.seq) }
    ELSE IF v.t = "Mapping"
    THEN UNION { UNION { { DebugMap(order) : order \in Orders(CollectHashMap(
                               [i \in DOMAIN v.m |-> <<ks[i], vs[i]>>])) }
                         : vs \in RenderEach([i \in DOMAIN v.m |-> v.m[i][2]]) }
                 : ks \in RenderEach([i \in DOMAIN v.m |-> v.m[i][1]]) }
    ELSE \* Tagged: format!("{}:{}", t.tag, ...), Tag's Display writing '!' and the name
         { <<Bang>> \o v.tag \o <<Colon>> \o r : r \in get_val_string(v.value) }

(***************************************************************************)
(* The renderer alone: get_val_string called repeatedly on one value.      *)
(***************************************************************************)
RECURSIVE FlatEntries(_, _, _)
\* The entry lists of exactly n entries.
FlatEntries(keys, vals, n) ==
    IF n = 0 THEN { <<>> }
    ELSE { Append(m, <<k, v>>) : m \in FlatEntries(keys, vals, n - 1), k \in keys, v \in vals }

Str1 == <<Digit0 + 1>>

RenderAtoms == { Null, Bool(TRUE), Number(12), String(<<97, Quote>>) }
RenderKeys  == { String(StrA), String(Str1), Number(1) }
RenderMaps  ==
    { Mapping(m) : m \in { e \in UNION { FlatEntries(RenderKeys, RenderAtoms, n) :
                                          n \in 0 .. MaxMapEntries } : UniqueKeys(e) } }
RenderInner == RenderAtoms \cup RenderMaps
RenderVals  ==
    RenderInner
    \cup { Sequence(<<>>) }
    \cup { Sequence(<<v>>) : v \in RenderInner }
    \cup { Sequence(<<u, v>>) : u, v \in RenderAtoms }
    \cup { Tagged(StrB, v) : v \in RenderInner }

InitRender ==
    /\ pc = "render"
    /\ val \in RenderVals /\ rendered = <<>>
    /\ input = None /\ old_val = None /\ new_val = None /\ err = None
    /\ old_key_vals = {} /\ new_key_vals = {} /\ diff = None /\ out = <<>>
    /\ self_key = <<>> /\ other_key = <<>> /\ ordering = None /\ rev_ordering = None

Render ==
    /\ pc = "render"
    /\ Len(rendered) < MaxRenders
    /\ \E s \in get_val_string(val) : rendered' = Append(rendered, s)
    /\ UNCHANGED <<pc, input, old_val, new_val, err, old_key_vals, new_key_vals, diff, out,
                   self_key, other_key, ordering, rev_ordering, val>>

NextRender == Render

SpecRender == InitRender /\ [][NextRender]_vars

(***************************************************************************)
(* cmp_yml_vals.  old_keys and new_keys are HashSets: old_iter and         *)
(* new_iter are the orders in which they happen to be iterated.            *)
(***************************************************************************)
\* slice::sort_by (stable) with ConfigKey::cmp on the keys, by insertion.
RECURSIVE InsertSorted(_, _)
InsertSorted(sorted, e) ==
    IF sorted = <<>> THEN <<e>>
    ELSE IF ConfigKey_cmp(e[1], sorted[Len(sorted)][1]) = "Less"
    THEN Append(InsertSorted(SubSeq(sorted, 1, Len(sorted) - 1), e), sorted[Len(sorted)])
    ELSE Append(sorted, e)

RECURSIVE SortByKey(_)
SortByKey(pairs) ==
    IF pairs = <<>> THEN <<>>
    ELSE InsertSorted(SortByKey(SubSeq(pairs, 1, Len(pairs) - 1)), pairs[Len(pairs)])

\* DedupSortedIter: of neighbours with equal keys (ConfigKey: PartialEq, the
\* strings compared) the last is kept.
RECURSIVE Dedup(_)
Dedup(sorted) ==
    IF Len(sorted) < 2 THEN sorted
    ELSE IF sorted[1][1] = sorted[2][1] THEN Dedup(Tail(sorted))
    ELSE <<sorted[1]>> \o Dedup(Tail(sorted))

\* iter.collect::<BTreeMap<ConfigKey, _>>(): the entries in key order.
BTreeCollect(pairs) == Dedup(SortByKey(pairs))

\* HashSet::difference: the elements of self, in its order, not in other.
Difference(self_iter, other_set) == SelectSeq(self_iter, LAMBDA k : k \notin other_set)

\* HashSet::intersection: iterates the smaller set (self when they tie).
Intersection(self_iter, other_iter) ==
    IF Len(self_iter) <= Len(other_iter)
    THEN SelectSeq(self_iter, LAMBDA k : k \in { other_iter[i] : i \in DOMAIN other_iter })
    ELSE SelectSeq(other_iter, LAMBDA k : k \in { self_iter[i] : i \in DOMAIN self_iter })

\* filter_map(|k| key_vals.get(k).map(|&v| (k.into(), v)))
WithValues(keys, key_vals) ==
    LET present == SelectSeq(keys, LAMBDA k : k \in HashKeys(key_vals))
    IN  [i \in DOMAIN present |-> <<present[i], HashGet(key_vals, present[i])>>]

\* filter_map(|&k| match (old.get(k), new.get(k)) { (Some(o), Some(n)) if o != n => ... })
\* ModifiedPairs without the guard old != new.
ModifiedPairs_unguarded(keys, old_kvs, new_kvs) ==
    LET both == SelectSeq(keys, LAMBDA k : k \in HashKeys(old_kvs) /\ k \in HashKeys(new_kvs))
    IN  [i \in DOMAIN both |->
            <<both[i], <<HashGet(old_kvs, both[i]), HashGet(new_kvs, both[i])>> >>]

ModifiedPairs(keys, old_kvs, new_kvs) ==
    LET changed == SelectSeq(keys, LAMBDA k :
                       /\ k \in HashKeys(old_kvs) /\ k \in HashKeys(new_kvs)
                       /\ ~ValEq(HashGet(old_kvs, k), HashGet(new_kvs, k)))
    IN  [i \in DOMAIN changed |->
            <<changed[i], <<HashGet(old_kvs, changed[i]), HashGet(new_kvs, changed[i])>> >>]

\* cmp_yml_vals looking the added keys up in old_key_vals.
cmp_yml_vals_added_from_old(old_kvs, new_kvs, old_iter, new_iter) ==
    LET old_keys == { old_iter[i] : i \in DOMAIN old_iter }
        new_keys == { new_iter[i] : i \in DOMAIN new_iter }
        added_keys   == Difference(new_iter, old_keys)
        removed_keys == Difference(old_iter, new_keys)
    IN  [ added    |-> BTreeCollect(WithValues(added_keys, old_kvs)),
          removed  |-> BTreeCollect(WithValues(removed_keys, old_kvs)),
          modified |-> BTreeCollect(ModifiedPairs(Intersection(old_iter, new_iter),
                                                  old_kvs, new_kvs)) ]

cmp_yml_vals(old_kvs, new_kvs, old_iter, new_iter) ==
    LET old_keys == { old_iter[i] : i \in DOMAIN old_iter }
        new_keys == { new_iter[i] : i \in DOMAIN new_iter }
        added_keys   == Difference(new_iter, old_keys)
        removed_keys == Difference(old_iter, new_keys)
    IN  [ added    |-> BTreeCollect(WithValues(added_keys, new_kvs)),
          removed  |-> BTreeCollect(WithValues(removed_keys, old_kvs)),
          modified |-> BTreeCollect(ModifiedPairs(Intersection(old_iter, new_iter),
                                                  old_kvs, new_kvs)) ]

(***************************************************************************)
(* print_diff: the lines of the report, colours left out.  A line is a     *)
(* tuple: its kind, then its key and rendered value(s).                    *)
(***************************************************************************)
RECURSIVE EntryLines(_, _)
\* The lines of one section, for every rendering of its values.
EntryLines(sign, entries) ==
    IF entries = <<>> THEN { <<>> }
    ELSE { << <<sign, entries[1][1], r>> >> \o rest :
             r \in get_val_string(entries[1][2]), rest \in EntryLines(sign, Tail(entries)) }

RECURSIVE ModifiedLines(_)
ModifiedLines(entries) ==
    IF entries = <<>> THEN { <<>> }
    ELSE { << <<"~", entries[1][1]>>, <<"before", o>>, <<"after", n>> >> \o rest :
             o \in get_val_string(entries[1][2][1]), n \in get_val_string(entries[1][2][2]),
             rest \in ModifiedLines(Tail(entries)) }

Section(title, entry_lines) ==
    IF entry_lines = <<>> THEN <<>> ELSE << <<title>> >> \o entry_lines \o << <<"">> >>

print_diff(d) ==
    { << <<"title">>, <<"">>, <<"stats">>,
         <<"added", Len(d.added)>>, <<"removed", Len(d.removed)>>,
         <<"modified", Len(d.modified)>>, <<"">> >>
      \o Section("added:", a) \o Section("removed:", r) \o Section("modified:", m)
      \o (IF d.added = <<>> /\ d.removed = <<>> /\ d.modified = <<>>
          THEN << <<"no differences">> >> ELSE <<>>) :
      a \in EntryLines("+", d.added), r \in EntryLines("-", d.removed),
      m \in ModifiedLines(d.modified) }

(***************************************************************************)
(* read_cfg and main.                                                      *)
(***************************************************************************)
Ok(v)    == [t |-> "Ok", v |-> v]
\* kind: which map_err closure of read_cfg built the message.
Err(kind, msg) == [t |-> "Err", kind |-> kind, msg |-> msg]

MsgReadFailed  == "read config file failed!"        \* the text of line 146
MsgParseFailed == "parse OLD config file failed!"   \* the text of line 148

\* file: what the file system holds at path when read_cfg runs.
read_cfg(path, file) ==
    IF file.t = "Unreadable"
    THEN Err("IOFailure", <<MsgReadFailed, file.e, ": ", path>>)
    ELSE IF file.t = "Malformed"
    THEN Err("ParseFailure", <<MsgParseFailed, file.e>>)
    ELSE Ok(file.doc)

\* main going on after a failed read_cfg.
AfterRead_ignoring(r, next_pc) == next_pc

\* The ? operator of lines 131 and 132: where main goes after read_cfg.
AfterRead(r, next_pc) == IF r.t = "Err" THEN "exit_err" ELSE next_pc

SeqMapAB == Sequence(<< Mapping(<< <<String(StrA), Number(1)>>, <<String(StrB), Number(2)>> >>) >>)
SeqMapBA == Sequence(<< Mapping(<< <<String(StrB), Number(2)>>, <<String(StrA), Number(1)>> >>) >>)

DiffKeys   == { String(StrA), String(StrB) }
DiffLeaves == { Number(1), SeqMapAB, SeqMapBA }
DiffDocs   == DocsUpTo(DiffKeys, DiffLeaves, MaxDiffNodes)

FilePaths  == { "old.yml", "new.yml" }
FileStates ==
    { [t |-> "Unreadable", e |-> "No such file or directory (os error 2)"],
      [t |-> "Malformed", e |-> "mapping values are not allowed in this context"] }
    \cup { [t |-> "Parsed", doc |-> d] : d \in DiffDocs }

Init ==
    /\ pc = "start"
    /\ input = None /\ old_val = None /\ new_val = None /\ err = None
    /\ old_key_vals = {} /\ new_key_vals = {} /\ diff = None /\ out = <<>>
    /\ self_key = <<>> /\ other_key = <<>> /\ ordering = None /\ rev_ordering = None
    /\ val = None /\ rendered = <<>>

\* Args::parse()
ParseArgs ==
    /\ pc = "start"
    /\ input' \in { a \in [old : FilePaths, new : FilePaths] : a.old # a.new }
    /\ pc' = "read_old"
    /\ UNCHANGED <<old_val, new_val, err, old_key_vals, new_key_vals, diff, out,
                   self_key, other_key, ordering, rev_ordering, val, rendered>>

\* let old_val = read_cfg(input.old)?;
ReadOld ==
    /\ pc = "read_old"
    /\ \E file \in FileStates :
         LET r == read_cfg(input.old, file)
         IN  /\ old_val' = IF r.t = "Ok" THEN r.v ELSE old_val
             /\ err' = IF r.t = "Err" THEN r ELSE err
             /\ pc' = AfterRead(r, "read_new")
    /\ UNCHANGED <<input, new_val, old_key_vals, new_key_vals, diff, out,
                   self_key, other_key, ordering, rev_ordering, val, rendered>>

\* let new_val = read_cfg(input.new)?;
ReadNew ==
    /\ pc = "read_new"
    /\ \E file \in FileStates :
         LET r == read_cfg(input.new, file)
         IN  /\ new_val' = IF r.t = "Ok" THEN r.v ELSE new_val
             /\ err' = IF r.t = "Err" THEN r ELSE err
             /\ pc' = AfterRead(r, "diff")
    /\ UNCHANGED <<input, old_val, old_key_vals, new_key_vals, diff, out,
                   self_key, other_key, ordering, rev_ordering, val, rendered>>

\* let diff = cmp_yml_vals(&old_val, &new_val);
Diff ==
    /\ pc = "diff"
    /\ LET old_kvs == extract_key_vals(old_val, <<>>)
           new_kvs == extract_key_vals(new_val, <<>>)
       IN  /\ old_key_vals' = old_kvs
           /\ new_key_vals' = new_kvs
           /\ \E old_iter \in Orders(HashKeys(old_kvs)), new_iter \in Orders(HashKeys(new_kvs)) :
                diff' = cmp_yml_vals(old_kvs, new_kvs, old_iter, new_iter)
    /\ pc' = "print"
    /\ UNCHANGED <<input, old_val, new_val, err, out,
                   self_key, other_key, ordering, rev_ordering, val, rendered>>

\* print_diff(&diff); Ok(())
Report ==
    /\ pc = "print"
    /\ out' \in print_diff(diff)
    /\ pc' = "exit_ok"
    /\ UNCHANGED <<input, old_val, new_val, err, old_key_vals, new_key_vals, diff,
                   self_key, other_key, ordering, rev_ordering, val, rendered>>

\* The exit status of the process: main returned Ok(()) or Err(_).
ExitCode == IF pc = "exit_ok" THEN 0 ELSE IF pc = "exit_err" THEN 1 ELSE -1

Next == ParseArgs \/ ReadOld \/ ReadNew \/ Diff \/ Report

Spec == Init /\ [][Next]_vars

(***************************************************************************)
(* Properties.                                                             *)
(***************************************************************************)

\* C1: flatten(D) holds no entry with the empty path and no entry whose
\* value is a Mapping, also when D has empty-string keys.
C1_NoEmptyPathNoMapping ==
    pc = "flattened" =>
        \A e \in old_key_vals : e[1] # <<>> /\ e[2].t # "Mapping"

Reverse(o) == IF o = "Less" THEN "Greater" ELSE IF o = "Greater" THEN "Less" ELSE o

\* C2: ConfigKey::cmp is a strict total order: Equal exactly for the same
\* string, cmp(b, a) the reverse of cmp(a, b), and a < b, b < c imply a < c
\* for every third path c.
C2_StrictTotalOrder ==
    pc = "cmp_done" =>
        /\ ordering.t \in {"Less", "Equal", "Greater"}
        /\ (ordering.t = "Equal") <=> (self_key = other_key)
        /\ rev_ordering.t = Reverse(ordering.t)
        /\ \A c \in PathStrings :
             (ordering.t = "Less" /\ ConfigKey_cmp(other_key, c) = "Less")
                 => ConfigKey_cmp(self_key, c) = "Less"

\* C2's case: a < b share their first segment, and b < c for a path c that
\* shares no segment with them.
C2_Witness ==
    /\ pc = "cmp_done"
    /\ ordering.t = "Less"
    /\ Split(self_key)[1] = Split(other_key)[1]
    /\ StrCmp(self_key, other_key) = "Greater"
    /\ \E c \in PathStrings :
         Split(c)[1] # Split(self_key)[1] /\ ConfigKey_cmp(other_key, c) = "Less"

FirstDiffering(p, q) == CHOOSE i \in DOMAIN p : p[i] # q[i] /\ \A j \in 1 .. (i - 1) : p[j] = q[j]

\* C10: for distinct paths, different first segments are decided by the plain
\* comparison of the whole strings; with the first segment shared the path of
\* fewer segments is first, and of two paths with as many segments the first
\* differing segment decides.
C10_HierarchicalRule ==
    (pc = "cmp_done" /\ self_key # other_key) =>
        LET p == Split(self_key)
            q == Split(other_key)
        IN  IF p[1] # q[1] THEN ordering.t = StrCmp(self_key, other_key)
            ELSE IF Len(p) < Len(q) THEN ordering.t = "Less"
            ELSE IF Len(p) > Len(q) THEN ordering.t = "Greater"
            ELSE ordering.t = StrCmp(p[FirstDiffering(p, q)], q[FirstDiffering(p, q)])

\* C10's case: an ancestor and its descendant, which the plain comparison of
\* the strings would also order, and two paths it would order the other way.
C10_Witness ==
    /\ pc = "cmp_done"
    /\ Split(self_key)[1] = Split(other_key)[1]
    /\ Len(Split(self_key)) < Len(Split(other_key))
    /\ CommonPrefixLen(Split(self_key), Split(other_key)) < Len(Split(self_key))
    /\ StrCmp(self_key, other_key) = "Greater"
    /\ ordering.t = "Less"

PairSet(entries) == { entries[i] : i \in DOMAIN entries }
DiffDone == pc \in {"print", "exit_ok"}

\* C3: added = the paths of flatten(new) not in flatten(old) with the new
\* values, removed = the paths of flatten(old) not in flatten(new) with the
\* old values, modified = the common paths whose values are not deeply equal,
\* with both values; nothing else is reported, and no path twice.
C3_DiffExact ==
    DiffDone =>
        LET fo == extract_key_vals(old_val, <<>>)
            fn == extract_key_vals(new_val, <<>>)
            common == HashKeys(fo) \cap HashKeys(fn)
        IN  /\ PairSet(diff.added) = { e \in fn : e[1] \notin HashKeys(fo) }
            /\ PairSet(diff.removed) = { e \in fo : e[1] \notin HashKeys(fn) }
            /\ PairSet(diff.modified) =
                 { <<k, <<HashGet(fo, k), HashGet(fn, k)>> >> :
                     k \in { c \in common : ~ValEq(HashGet(fo, c), HashGet(fn, c)) } }
            /\ Len(diff.added) = Cardinality(PairSet(diff.added))
            /\ Len(diff.removed) = Cardinality(PairSet(diff.removed))
            /\ Len(diff.modified) = Cardinality(PairSet(diff.modified))

\* C3's case: a diff with an added and a modified path.
C3_Witness ==
    /\ DiffDone
    /\ diff.added # <<>>
    /\ diff.modified # <<>>

NoDiff == [added |-> <<>>, removed |-> <<>>, modified |-> <<>>]

\* C4: diff(D, D) is empty in all three mappings and raises no error.
C4_SelfDiffEmpty ==
    (DiffDone /\ old_val = new_val) => (diff = NoDiff /\ err = None)

\* C4's case: a document with leaves compared with itself, reported.
C4_Witness ==
    /\ pc = "exit_ok"
    /\ old_val = new_val
    /\ Cardinality(old_key_vals) >= 2
    /\ out[Len(out)] = <<"no differences">>

RenderedPairs(key_vals) == { <<e[1], get_val_string(e[2])>> : e \in key_vals }

\* C5: two documents equal under deep equality flatten to the same set of
\* (path, rendered value) pairs.
C5_ReflattenSame ==
    (pc = "flattened" /\ ValEq(old_val, new_val)) =>
        RenderedPairs(old_key_vals) = RenderedPairs(new_key_vals)

\* C6: the diff and the report run only after both documents were loaded; a
\* failed load ends the run with an error, before any diff or report; with
\* both loaded the run ends with the report printed and success.
C6_DiffOnlyAfterBothLoaded ==
    /\ (pc \in {"diff", "print", "exit_ok"} \/ diff # None \/ out # <<>>)
           => (old_val # None /\ new_val # None /\ err = None)
    /\ err # None => (pc = "exit_err" /\ ExitCode = 1 /\ diff = None /\ out = <<>>)
    /\ pc = "exit_err" => (err # None /\ (old_val = None \/ new_val = None))
    /\ pc = "exit_ok" => (diff # None /\ out # <<>> /\ ExitCode = 0)
    /\ (old_val # None /\ new_val # None) => pc \in {"diff", "print", "exit_ok"}

\* C6's case: the old document loaded, the new one failed, the run over.
C6_Witness ==
    /\ pc = "exit_err"
    /\ old_val # None
    /\ new_val = None
    /\ diff = None

Offending == IF old_val = None THEN input.old ELSE input.new

\* C7: the error of a parse failure carries the path of the file that was
\* malformed.
C7_ParseErrorNamesFile ==
    (pc = "exit_err" /\ err.kind = "ParseFailure") =>
        \E i \in DOMAIN err.msg : err.msg[i] = Offending

\* C8: rendering the same value twice gives the same string.
C8_RenderStable ==
    \A i, j \in DOMAIN rendered : rendered[i] = rendered[j]

\* The non-Mapping nodes of v reached through string keys, each with the
\* list of the keys leading to it.
RECURSIVE LeafNodes(_)
LeafNodes(v) ==
    IF v.t # "Mapping" THEN {}
    ELSE UNION { IF v.m[i][1].t # "String" THEN {}
                 ELSE IF v.m[i][2].t = "Mapping"
                 THEN { << <<v.m[i][1].s>> \o n[1], n[2] >> : n \in LeafNodes(v.m[i][2]) }
                 ELSE { << <<v.m[i][1].s>>, v.m[i][2] >> }
                 : i \in DOMAIN v.m }

\* C9: flatten(D) has exactly one entry per non-Mapping node reached through
\* string keys k1..kn, at the path k1.k2.....kn, with that node as its value.
C9_FlattenExact ==
    pc = "flattened" =>
        old_key_vals = { <<Join(n[1], <<Dot>>), n[2]>> : n \in LeafNodes(old_val) }

====
